---- MODULE Spec2Model ----
(***************************************************************************)
(* scripts/restore-test-file.py: read a text file, run an ordered sequence *)
(* of str.replace / re.sub substitutions over it, write the result to a    *)
(* second file and print a confirmation line.                              *)
(*                                                                         *)
(* A text is a sequence of Unicode code points.  The script is a straight  *)
(* line of statements; pc names the source line about to be executed.      *)
(***************************************************************************)
EXTENDS Integers, Sequences, FiniteSets, TLC

VARIABLES
    pc,          \* source line about to run, or "done" / "failed"
    input,       \* decoded characters held by the source file (never written)
    srcReadable, \* whether open(..., 'r') of the source file succeeds
    content,     \* the script's variable `content`
    dest,        \* the destination file: [exists, data]
    destOpen,    \* the destination is open for writing (inside the with block)
    dest0,       \* the destination file as it was before the run
    printed,     \* number of confirmation lines written to stdout
    failedAt     \* "none", or the step whose exception ended the run

vars == <<pc, input, srcReadable, content, dest, destOpen, dest0, printed, failedAt>>

----------------------------------------------------------------------------
(* Characters (code points)                                                *)

CHECK == 10003
CROSS == 10060
CLIP == 128203
MAG == 128269
BROOM == 129529
CHART == 128202
LSQ == 8216
RSQ == 8217
LDQ == 8220
RDQ == 8221
CR == 13
LF == 10
SP == 32
APOS == 39
QUOTE == 34
LETTER_X == 88
EQUALS == 61
LESS == 60
GREATER == 62
NINE == 57

Markers == {CHECK, CROSS, CLIP, MAG, BROOM, CHART}
Curly == {LSQ, RSQ, LDQ, RDQ}

(* The first argument of the replace call that starts on line 24.  The     *)
(* three apostrophes after "replace(" open a triple-quoted string literal, *)
(* which runs to the three apostrophes on line 25:                         *)
(*   , "'")  # LEFT SINGLE QUOTATION MARK\ncontent = content.replace(      *)
Line24Old ==
    <<44, 32, 34, 39, 34, 41, 32, 32, 35, 32, 76, 69, 70, 84, 32, 83, 73, 78,
      71, 76, 69, 32, 81, 85, 79, 84, 65, 84, 73, 79, 78, 32, 77, 65, 82, 75,
      10, 99, 111, 110, 116, 101, 110, 116, 32, 61, 32, 99, 111, 110, 116,
      101, 110, 116, 46, 114, 101, 112, 108, 97, 99, 101, 40>>

----------------------------------------------------------------------------
(* str.replace(old, new), old non-empty: the occurrences of old are found  *)
(* from the left, each search starting where the previous match ended;     *)
(* the text between matches is copied.                                      *)

MatchAt(s, old, i) ==
    /\ s[i] = old[1]
    /\ i + Len(old) - 1 <= Len(s)
    /\ \A k \in 2..Len(old) : s[i + k - 1] = old[k]

Least(S) == CHOOSE x \in S : \A y \in S : x <= y

RECURSIVE ReplaceFrom(_, _, _, _)
ReplaceFrom(s, old, new, i) ==
    LET found == {j \in i..Len(s) : MatchAt(s, old, j)}
    IN  IF found = {} THEN SubSeq(s, i, Len(s))
        ELSE SubSeq(s, i, Least(found) - 1) \o new
                 \o ReplaceFrom(s, old, new, Least(found) + Len(old))

Replace(s, old, new) == ReplaceFrom(s, old, new, 1)

(* re.sub(r'   +', '  ', s): the leftmost place where `least` spaces stand *)
(* matches together with every space that follows (greedy +), and is       *)
(* replaced by `new`; the search resumes after the match.                  *)

SpacesAt(s, least, i) ==
    /\ s[i] = SP
    /\ i + least - 1 <= Len(s)
    /\ \A k \in 1..(least - 1) : s[i + k] = SP

RunEnd(s, i) == Least({k \in i..Len(s) : k = Len(s) \/ s[k + 1] # SP})

RECURSIVE SubSpacesFrom(_, _, _, _)
SubSpacesFrom(s, least, new, i) ==
    LET found == {j \in i..Len(s) : SpacesAt(s, least, j)}
    IN  IF found = {} THEN SubSeq(s, i, Len(s))
        ELSE SubSeq(s, i, Least(found) - 1) \o new
                 \o SubSpacesFrom(s, least, new, RunEnd(s, Least(found)) + 1)

----------------------------------------------------------------------------
(* The statements of lines 14 to 34, each as a function of `content`       *)

L14(s) == Replace(s, <<CHECK>>, <<SP>>)
(* faulty variant: the cross marker restored as a lower-case x *)
L15LowerCase(s) == Replace(s, <<CROSS>>, <<120>>)
L15(s) == Replace(s, <<CROSS>>, <<LETTER_X>>)
L18(s) == Replace(s, <<CLIP>>, <<EQUALS>>)
(* faulty variant: a replacement character that is itself a marker of line 18 *)
L19ToMarker(s) == Replace(s, <<MAG>>, <<CLIP>>)
L19(s) == Replace(s, <<MAG>>, <<LESS>>)
L20(s) == Replace(s, <<BROOM>>, <<GREATER>>)
L21(s) == Replace(s, <<CHART>>, <<NINE>>)
L24(s) == Replace(s, Line24Old, <<APOS>>)
L26(s) == Replace(s, <<QUOTE>>, <<QUOTE>>)
L27(s) == Replace(s, <<QUOTE>>, <<QUOTE>>)
L30(s) == Replace(s, <<CR, LF>>, <<LF>>)
(* faulty variant: the arguments of line 31 exchanged *)
L31Swapped(s) == Replace(s, <<LF>>, <<CR>>)
L31(s) == Replace(s, <<CR>>, <<LF>>)
(* faulty variants: the run collapsed to one space; the pattern needing four spaces *)
L34ToOne(s) == SubSpacesFrom(s, 3, <<SP>>, 1)
L34FourOrMore(s) == SubSpacesFrom(s, 4, <<SP, SP>>, 1)
L34(s) == SubSpacesFrom(s, 3, <<SP, SP>>, 1)

Step1(s) == L15(L14(s))
Step2(s) == L21(L20(L19(L18(s))))
Step3(s) == L27(L26(L24(s)))
Step4(s) == L31(L30(s))
Step5(s) == L34(s)
Transform(s) == Step5(Step4(Step3(Step2(Step1(s)))))

(* f.read() on a file opened in text mode with the default newline=None:   *)
(* universal newlines, "\r\n" and "\r" are handed to the program as "\n".  *)
ReadText(s) == Replace(Replace(s, <<CR, LF>>, <<LF>>), <<CR>>, <<LF>>)

----------------------------------------------------------------------------
(* Bounds and the input texts                                              *)

MaxPieces == 3
MaxPartial == 2

OldHead == SubSeq(Line24Old, 1, 6)
OldTail == SubSeq(Line24Old, 7, Len(Line24Old))

Pieces ==
    {<<CHECK>>, <<CROSS>>, <<CLIP>>, <<MAG>>, <<BROOM>>, <<CHART>>,
     <<LDQ>>, <<CR>>, <<LF>>, <<SP>>, OldHead, OldTail}

RECURSIVE TextsUpTo(_)
TextsUpTo(n) ==
    IF n = 0 THEN {<<>>}
    ELSE LET T == TextsUpTo(n - 1) IN T \cup {p \o t : p \in Pieces, t \in T}

Texts == TextsUpTo(MaxPieces)

(* what the destination holds before the run, when it exists *)
PriorData == <<97>>

NoFile == [exists |-> FALSE, data |-> <<>>]
File(d) == [exists |-> TRUE, data |-> d]

Min(a, b) == IF a <= b THEN a ELSE b

----------------------------------------------------------------------------
Init ==
    /\ pc = "l10"
    /\ srcReadable \in BOOLEAN
    /\ input \in (IF srcReadable THEN Texts ELSE {<<>>})
    /\ content = <<>>
    /\ dest0 \in {NoFile, File(PriorData)}
    /\ dest = dest0
    /\ destOpen = FALSE
    /\ printed = 0
    /\ failedAt = "none"

Static == UNCHANGED <<input, srcReadable, dest0>>

(* lines 10-11: with open(<source>, 'r', encoding='utf-8') as f: f.read()  *)
ReadOk ==
    /\ pc = "l10"
    /\ srcReadable
    /\ content' = ReadText(input)
    /\ pc' = "l14"
    /\ UNCHANGED <<dest, destOpen, printed, failedAt>>
    /\ Static

(* faulty variant: the destination opened for writing before the source is read *)
ReadFailAfterOpen ==
    /\ pc = "l10"
    /\ ~srcReadable
    /\ dest' = [exists |-> TRUE, data |-> <<>>]
    /\ pc' = "failed"
    /\ failedAt' = "read"
    /\ UNCHANGED <<content, destOpen, printed, input, srcReadable, dest0>>

ReadFail ==
    /\ pc = "l10"
    /\ ~srcReadable
    /\ pc' = "failed"
    /\ failedAt' = "read"
    /\ UNCHANGED <<content, dest, destOpen, printed>>
    /\ Static

Assign(new, next) ==
    /\ content' = new
    /\ pc' = next
    /\ UNCHANGED <<dest, destOpen, printed, failedAt>>
    /\ Static

Line14 == pc = "l14" /\ Assign(L14(content), "l15")
Line15 == pc = "l15" /\ Assign(L15(content), "l18")
Line18 == pc = "l18" /\ Assign(L18(content), "l19")
Line19 == pc = "l19" /\ Assign(L19(content), "l20")
Line20 == pc = "l20" /\ Assign(L20(content), "l21")
Line21 == pc = "l21" /\ Assign(L21(content), "l24")
Line24 == pc = "l24" /\ Assign(L24(content), "l26")
Line26 == pc = "l26" /\ Assign(L26(content), "l27")
Line27 == pc = "l27" /\ Assign(L27(content), "l30")
Line30 == pc = "l30" /\ Assign(L30(content), "l31")
Line31 == pc = "l31" /\ Assign(L31(content), "l34")
Line34 == pc = "l34" /\ Assign(L34(content), "l37")

(* line 37: open(<destination>, 'w', encoding='utf-8') creates the file or *)
(* truncates it to length zero; it raises when the location is unwritable. *)
OpenDestOk ==
    /\ pc = "l37"
    /\ dest' = File(<<>>)
    /\ destOpen' = TRUE
    /\ pc' = "l38"
    /\ UNCHANGED <<content, printed, failedAt>>
    /\ Static

OpenDestFail ==
    /\ pc = "l37"
    /\ pc' = "failed"
    /\ failedAt' = "open"
    /\ UNCHANGED <<content, dest, destOpen, printed>>
    /\ Static

(* line 38: f.write(content), and the flush at the end of the with block   *)
WriteOk ==
    /\ pc = "l38"
    /\ destOpen
    /\ dest' = File(content)
    /\ pc' = "l39"
    /\ UNCHANGED <<content, destOpen, printed, failedAt>>
    /\ Static

(* faulty variant: the confirmation printed on the way out of a failed write *)
WriteFailPrints ==
    /\ pc = "l38"
    /\ destOpen
    /\ \E k \in 0..Min(Len(content), MaxPartial) :
           dest' = File(SubSeq(content, 1, k))
    /\ destOpen' = FALSE
    /\ printed' = printed + 1
    /\ pc' = "failed"
    /\ failedAt' = "write"
    /\ UNCHANGED <<content, input, srcReadable, dest0>>

(* An I/O error while the data goes out (ENOSPC, EIO): some part of the    *)
(* text has reached the file, the with block closes it, the error          *)
(* propagates.                                                             *)
WriteFail ==
    /\ pc = "l38"
    /\ destOpen
    /\ \E k \in 0..Min(Len(content), MaxPartial) :
           dest' = File(SubSeq(content, 1, k))
    /\ destOpen' = FALSE
    /\ pc' = "failed"
    /\ failedAt' = "write"
    /\ UNCHANGED <<content, printed>>
    /\ Static

(* leaving the with block of lines 37-38 closes the file                   *)
CloseDest ==
    /\ pc = "l39"
    /\ destOpen' = FALSE
    /\ pc' = "l40"
    /\ UNCHANGED <<content, dest, printed, failedAt>>
    /\ Static

(* line 40: print(...)                                                     *)
PrintConfirmation ==
    /\ pc = "l40"
    /\ printed' = printed + 1
    /\ pc' = "done"
    /\ UNCHANGED <<content, dest, destOpen, failedAt>>
    /\ Static

Next ==
    \/ ReadOk
    \/ ReadFail
    \/ Line14
    \/ Line15
    \/ Line18
    \/ Line19
    \/ Line20
    \/ Line21
    \/ Line24
    \/ Line26
    \/ Line27
    \/ Line30
    \/ Line31
    \/ Line34
    \/ OpenDestOk
    \/ OpenDestFail
    \/ WriteOk
    \/ WriteFail
    \/ CloseDest
    \/ PrintConfirmation

Spec == Init /\ [][Next]_vars

----------------------------------------------------------------------------
(* Reference definitions the properties are stated with                    *)

MarkerOf(c) ==
    CASE c = CHECK -> SP
      [] c = CROSS -> LETTER_X
      [] c = CLIP -> EQUALS
      [] c = MAG -> LESS
      [] c = BROOM -> GREATER
      [] c = CHART -> NINE
      [] OTHER -> c

QuoteOf(c) ==
    CASE c \in {LSQ, RSQ} -> APOS
      [] c \in {LDQ, RDQ} -> QUOTE
      [] OTHER -> c

CrToLf(c) == IF c = CR THEN LF ELSE c

MapMarkers(s) == [i \in 1..Len(s) |-> MarkerOf(s[i])]

MapQuotes(s) == [i \in 1..Len(s) |-> QuoteOf(s[i])]

(* one linefeed per CR LF pair and per lone CR: the LF of a pair is        *)
(* dropped and every CR becomes LF                                         *)
EolRef(s) ==
    LET kept == SelectSeq([i \in 1..Len(s) |-> i],
                          LAMBDA i : ~(s[i] = LF /\ i > 1 /\ s[i - 1] = CR))
    IN  [r \in 1..Len(kept) |-> CrToLf(s[kept[r]])]

(* a space is dropped exactly when two spaces stand right before it *)
CollapseRef(s) ==
    LET kept == SelectSeq([i \in 1..Len(s) |-> i],
                          LAMBDA i : ~(s[i] = SP /\ i > 2 /\ s[i - 1] = SP
                                                /\ s[i - 2] = SP))
    IN  [r \in 1..Len(kept) |-> s[kept[r]]]

Has(s, C) == \E i \in 1..Len(s) : s[i] \in C

HasLongRun(s) == \E i \in 1..Len(s) : SpacesAt(s, 3, i)

Perms4 == {p \in [1..4 -> 1..4] : \A i, j \in 1..4 : p[i] = p[j] => i = j}

OperatorLine(k, s) ==
    CASE k = 1 -> L18(s)
      [] k = 2 -> L19(s)
      [] k = 3 -> L20(s)
      [] k = 4 -> L21(s)

InOrder(p, s) ==
    OperatorLine(p[4], OperatorLine(p[3], OperatorLine(p[2], OperatorLine(p[1], s))))

AfterL34 ==
    \/ pc \in {"l37", "l38", "l39", "l40", "done"}
    \/ pc = "failed" /\ failedAt \in {"open", "write"}

Written == pc \in {"l39", "l40", "done"}

----------------------------------------------------------------------------
(* C1: once the quotation-mark lines (24 to 27) have run, the text is the  *)
(* text that entered them with every single curly quote replaced by the    *)
(* apostrophe and every double curly quote by the straight double quote,   *)
(* everything else unchanged, so that no curly quote is left.              *)
C1_QuotesNormalized ==
    pc = "l30" =>
        /\ content = MapQuotes(Step2(Step1(ReadText(input))))
        /\ ~Has(content, Curly)

(* C2: for an input without marker characters the text written is the     *)
(* input after only the line-ending step and the whitespace collapse.      *)
C2_NoMarkerOnlyEolAndCollapse ==
    (pc = "done" /\ ~Has(input, Markers)) =>
        dest.data = Step5(Step4(input))

(* C3: after line 34 the text is the text of the character-level           *)
(* substitutions with every run of three or more spaces cut to two and     *)
(* shorter runs untouched; neither it nor the written file has a run of    *)
(* three spaces.                                                           *)
C3_CollapseLast ==
    /\ pc = "l37" =>
          content = CollapseRef(Step4(Step3(Step2(Step1(ReadText(input))))))
    /\ AfterL34 => ~HasLongRun(content)
    /\ Written => ~HasLongRun(dest.data)

C3_Witness ==
    /\ pc = "done"
    /\ input = <<CHECK, SP, CHECK>>
    /\ dest.data = <<SP, SP>>

(* C4: when the run has ended, the destination holds the complete          *)
(* transformed text after a success and what it held before the run after  *)
(* a failure.                                                              *)
C4_AllOrNothing ==
    /\ pc = "done" => dest = File(content)
    /\ pc = "failed" => dest = dest0

(* C5: when the source cannot be opened for reading, the run gets no       *)
(* further than the read, where it fails; the destination is never opened  *)
(* and stays as it was (absent, or with its prior content); nothing is     *)
(* printed.                                                                *)
C5_ReadFailureLeavesDest ==
    ~srcReadable =>
        /\ pc \in {"l10", "failed"}
        /\ pc = "failed" => failedAt = "read"
        /\ dest = dest0
        /\ ~destOpen
        /\ printed = 0

C5_Witness ==
    /\ ~srcReadable
    /\ pc = "failed"
    /\ failedAt = "read"
    /\ dest0 = NoFile
    /\ dest = NoFile

C7_LineEndings ==
    /\ pc = "l34" =>
          /\ content = Step3(Step2(Step1(EolRef(input))))
          /\ ~Has(content, {CR})
    /\ AfterL34 => ~Has(content, {CR})
    /\ Written => ~Has(dest.data, {CR})

C7_Witness ==
    /\ pc = "done"
    /\ input = <<CR, LF, CR>>
    /\ dest.data = <<LF, LF>>

(* C8: the confirmation line is printed at most once; it has been printed  *)
(* exactly when the run has succeeded, and then the destination is closed  *)
(* and holds the whole text; a failed run has printed nothing.             *)
C8_ConfirmationOnce ==
    /\ printed \in {0, 1}
    /\ printed = 1 <=> pc = "done"
    /\ printed = 1 => (~destOpen /\ dest = File(content))
    /\ pc = "failed" => printed = 0

C8_Witness ==
    /\ pc = "done"
    /\ printed = 1
    /\ ~destOpen
    /\ dest = File(content)
    /\ Len(content) > 0

C10_OperatorLinesCommute ==
    pc = "l24" =>
        \A p \in Perms4 : InOrder(p, Step1(ReadText(input))) = content

C10_Witness ==
    /\ pc = "l24"
    /\ input = <<CHART, MAG, CLIP>>
    /\ content = <<NINE, LESS, EQUALS>>

====
